---- MODULE Spec2Model ----
(***************************************************************************)
(* GET STREAM STATUS (scsir, src/command/get_stream_status.rs).            *)
(*                                                                         *)
(* The builder GetStreamStatusCommand, its terminal issue(), the Command   *)
(* implementation ThisCommand handed to the transport, and the decoding of *)
(* the reply in process_result.                                            *)
(*                                                                         *)
(* Machine integers.  The code computes on u32 and usize values that do    *)
(* not fit the model checker's integers, so a machine integer is kept as   *)
(* its sequence of 16-bit limbs, most significant first: a u32 is two      *)
(* limbs, a usize (64-bit target) four.  <<8191, 65534>> is 0x1FFF_FFFE.   *)
(***************************************************************************)
EXTENDS Integers, Sequences, FiniteSets

VARIABLES
    overflow_checks,     \* the build: integer overflow panics (debug profile) or wraps (release)
    self,                \* the GetStreamStatusCommand: its command_buffer and descriptor_length
    call,                \* the most recent call on the command request and its argument
    issued,              \* issue() has been called on this command request
    sent,                \* what the most recent call handed to the transport, or NoTransaction
    outcome,             \* the ResultData the transport produced for it, or NoOutcome
    result               \* what the most recent call returned (or that it panicked)

vars == <<overflow_checks, self, call, issued, sent, outcome, result>>

----------------------------------------------------------------------------
(* Bounds of the model.                                                    *)

\* Small requested capacities 0..MaxCapacity are explored next to the boundary values.
MaxCapacity == 3
\* The device writes at most this many reply elements explicitly (the rest stays zero).
MaxWritten == 2
\* Reported element counts 0..MaxReported are explored next to the boundary values.
MaxReported == 3

----------------------------------------------------------------------------
(* Machine integers as limb sequences.                                     *)
(*                                                                         *)
(* The operators that take machine integers bind their arguments to values *)
(* first (x \in {a}), so that an argument is computed once however often   *)
(* the body reads it.                                                      *)

Limb == 2 ^ 16

Min(a, b) == IF a <= b THEN a ELSE b

Only(S) == CHOOSE v \in S : TRUE

\* The limb sequence of width n (limbs) of a small natural x < 2^31.
RECURSIVE ToLimbs(_, _)
ToLimbs(x, n) ==
    IF n = 0 THEN <<>> ELSE ToLimbs(x \div Limb, n - 1) \o <<x % Limb>>

\* The value of limbs 1..n of a limb sequence, when it is below 2^31.
RECURSIVE LimbsValue(_, _)
LimbsValue(a, n) ==
    IF n = 0 THEN 0 ELSE LimbsValue(a, n - 1) * Limb + a[n]

ToNat(a) == Only({LimbsValue(x, Len(x)) : x \in {a}})

\* Does the value fit the model checker's integers (below 2^31)?
IsSmall(a) ==
    \A x \in {a} :
        /\ \A i \in 1..(Len(x) - 2) : x[i] = 0
        /\ (Len(x) >= 2 => x[Len(x) - 1] < 2 ^ 15)

\* a < b from limb i on, for limb sequences of the same width.
RECURSIVE LessFrom(_, _, _)
LessFrom(a, b, i) ==
    IF i > Len(a) THEN FALSE
    ELSE IF a[i] # b[i] THEN a[i] < b[i]
    ELSE LessFrom(a, b, i + 1)

Less(a, b) == \E x \in {a}, y \in {b} : LessFrom(x, y, 1)

LessEq(a, b) == ~Less(b, a)

\* Limbs 1..n of a + b + carry, one limb wider: the head is the carry out.
RECURSIVE AddLimbs(_, _, _, _)
AddLimbs(a, b, n, carry) ==
    IF n = 0 THEN <<carry>>
    ELSE AddLimbs(a, b, n - 1, (a[n] + b[n] + carry) \div Limb) \o <<(a[n] + b[n] + carry) % Limb>>

\* Limbs 1..n of a - b - borrow, one limb wider: the head is the borrow out.
RECURSIVE SubLimbs(_, _, _, _)
SubLimbs(a, b, n, borrow) ==
    IF n = 0 THEN <<borrow>>
    ELSE SubLimbs(a, b, n - 1, IF a[n] - b[n] - borrow < 0 THEN 1 ELSE 0)
             \o <<(a[n] - b[n] - borrow + Limb) % Limb>>

\* Limbs 1..n of a * k + carry for a small k, one limb wider: the head overflows.
RECURSIVE MulLimbs(_, _, _, _)
MulLimbs(a, k, n, carry) ==
    IF n = 0 THEN <<carry>>
    ELSE MulLimbs(a, k, n - 1, (a[n] * k + carry) \div Limb) \o <<(a[n] * k + carry) % Limb>>

\* a \div k from limb i on, for a small k (rem: the remainder of the limbs above).
RECURSIVE DivLimbs(_, _, _, _)
DivLimbs(a, k, i, rem) ==
    IF i > Len(a) THEN <<>>
    ELSE <<(rem * Limb + a[i]) \div k>> \o DivLimbs(a, k, i + 1, (rem * Limb + a[i]) % k)

\* A result one limb wider as the wrapped value and whether it left the type.
Wrapped(r) == [value |-> Tail(r), overflow |-> Head(r) # 0]

\* Rust's overflowing_add / overflowing_sub / overflowing_mul.
overflowing_add(a, b) ==
    Only({Wrapped(r) : r \in {AddLimbs(x, y, Len(x), 0) : x \in {a}, y \in {b}}})

overflowing_sub(a, b) ==
    Only({Wrapped(r) : r \in {SubLimbs(x, y, Len(x), 0) : x \in {a}, y \in {b}}})

overflowing_mul(a, b) ==
    Only({Wrapped(r) : r \in {MulLimbs(x, k, Len(x), 0) : x \in {a}, k \in {ToNat(b)}}})

\* Rust's integer division (the divisors of this file are the small layout sizes).
div(a, b) == Only({DivLimbs(x, k, 1, 0) : x \in {a}, k \in {ToNat(b)}})

U32Limbs == 32 \div 16
UsizeLimbs == 64 \div 16

u32(x) == ToLimbs(x, U32Limbs)
usize(x) == ToLimbs(x, UsizeLimbs)

\* `x as usize` of a u32 and `x as u32` of a usize.
as_usize(x) == [i \in 1..(UsizeLimbs - U32Limbs) |-> 0] \o x
as_u32(x) == SubSeq(x, UsizeLimbs - U32Limbs + 1, UsizeLimbs)

u32_MAX == [i \in 1..U32Limbs |-> Limb - 1]

----------------------------------------------------------------------------
(* The three #[bitfield] layouts: fields in declaration order, widths in   *)
(* bits, packed most significant bit first.                                *)

\* Mutant: the reserved byte before `control` left out of the declaration.
CommandBufferLayout_unpadded ==
    << [field |-> "operation_code",             bits |-> 8],
       [field |-> "reserved_0",                 bits |-> 3],
       [field |-> "service_action",             bits |-> 5],
       [field |-> "reserved_1",                 bits |-> 16],
       [field |-> "starting_stream_identifier", bits |-> 16],
       [field |-> "reserved_2",                 bits |-> 32],
       [field |-> "allocation_length",          bits |-> 32],
       [field |-> "control",                    bits |-> 8] >>

CommandBufferLayout ==
    << [field |-> "operation_code",             bits |-> 8],
       [field |-> "reserved_0",                 bits |-> 3],
       [field |-> "service_action",             bits |-> 5],
       [field |-> "reserved_1",                 bits |-> 16],
       [field |-> "starting_stream_identifier", bits |-> 16],
       [field |-> "reserved_2",                 bits |-> 32],
       [field |-> "allocation_length",          bits |-> 32],
       [field |-> "reserved_3",                 bits |-> 8],
       [field |-> "control",                    bits |-> 8] >>

ParameterHeaderLayout ==
    << [field |-> "parameter_data_length",  bits |-> 32],
       [field |-> "reserved",               bits |-> 16],
       [field |-> "number_of_open_streams", bits |-> 16] >>

DescriptorLayout ==
    << [field |-> "reserved_0",        bits |-> 16],
       [field |-> "stream_identifier", bits |-> 16],
       [field |-> "reserved_1",        bits |-> 32] >>

RECURSIVE TotalBits(_)
TotalBits(layout) ==
    IF layout = <<>> THEN 0 ELSE Head(layout).bits + TotalBits(Tail(layout))

\* size_of::<T>() of a bitfield struct: its byte array.
size_of(layout) == TotalBits(layout) \div 8

\* size_of::<u64>()
SizeOfU64 == 8

\* A field's value is a natural for a width up to 16 bits and a u32 for B32.
Zero(bits) == IF bits <= 16 THEN 0 ELSE u32(0)

\* T::new(): every byte zero.
zeroed(layout) ==
    [f \in {layout[i].field : i \in 1..Len(layout)} |->
        Zero(layout[CHOOSE i \in 1..Len(layout) : layout[i].field = f].bits)]

\* The w bits of a natural x < 2^w, most significant first.
RECURSIVE Bits(_, _)
Bits(x, w) ==
    IF w = 0 THEN <<>> ELSE Bits(x \div 2, w - 1) \o <<x % 2>>

FieldBits(value, bits) ==
    IF bits <= 16 THEN Bits(value, bits)
    ELSE Bits(value[1], 16) \o Bits(value[2], 16)

\* The bits of the fields from field i on.
RECURSIVE LayoutBits(_, _, _)
LayoutBits(layout, rec, i) ==
    IF i > Len(layout) THEN <<>>
    ELSE FieldBits(rec[layout[i].field], layout[i].bits) \o LayoutBits(layout, rec, i + 1)

ByteOf(bits, k) ==
    LET b(j) == bits[8 * (k - 1) + j]
    IN  128 * b(1) + 64 * b(2) + 32 * b(3) + 16 * b(4) + 8 * b(5) + 4 * b(6) + 2 * b(7) + b(8)

\* into_bytes(): the struct as the bytes that go on the wire.
into_bytes(layout, rec) ==
    Only({ [k \in 1..(Len(bits) \div 8) |-> ByteOf(bits, k)] :
             bits \in {LayoutBits(layout, r, 1) : r \in {rec}} })

\* The bits of a byte sequence from byte i on, and the natural that bits
\* i..j of a bit sequence spell.
RECURSIVE BytesBits(_, _)
BytesBits(bytes, i) ==
    IF i > Len(bytes) THEN <<>> ELSE Bits(bytes[i], 8) \o BytesBits(bytes, i + 1)

RECURSIVE FromBits(_, _, _)
FromBits(bits, i, j) ==
    IF j < i THEN 0 ELSE 2 * FromBits(bits, i, j - 1) + bits[j]

RECURSIVE BitOffset(_, _, _)
BitOffset(layout, f, i) ==
    IF layout[i].field = f THEN 0 ELSE layout[i].bits + BitOffset(layout, f, i + 1)

\* The getter of field f, on the struct's bytes.
get(layout, bytes, f) ==
    LET w   == layout[CHOOSE i \in 1..Len(layout) : layout[i].field = f].bits
        off == BitOffset(layout, f, 1)
    IN  Only({ IF w <= 16 THEN FromBits(bits, off + 1, off + w)
               ELSE <<FromBits(bits, off + 1, off + 16), FromBits(bits, off + 17, off + 32)>> :
                 bits \in {BytesBits(b, 1) : b \in {bytes}} })

----------------------------------------------------------------------------
(* GetStreamStatusCommand: the builder.                                    *)

OPERATION_CODE == 158
SERVICE_ACTION == 22

NoTransaction == [kind |-> "NoTransaction"]
NoOutcome == [kind |-> "NoOutcome"]
Returned(kind) == [kind |-> kind]

\* GetStreamStatusCommand::new
new ==
    [ descriptor_length |-> u32(0),
      command_buffer |->
        [zeroed(CommandBufferLayout) EXCEPT !.operation_code = OPERATION_CODE,
                                            !.service_action = SERVICE_ACTION] ]

\* const MAX_DESCRIPTOR_LENGTH: usize
MAX_DESCRIPTOR_LENGTH ==
    div(overflowing_sub(as_usize(u32_MAX), usize(size_of(ParameterHeaderLayout))).value,
        usize(size_of(DescriptorLayout)))

\* size_of::<ParameterHeader>() as u32 + n * size_of::<Descriptor>() as u32, in u32
\* arithmetic: the wrapped value and whether a step overflowed.
header_plus_descriptors(n) ==
    LET product == overflowing_mul(n, u32(size_of(DescriptorLayout)))
        sum     == overflowing_add(u32(size_of(ParameterHeaderLayout)), product.value)
    IN  [value |-> sum.value, overflow |-> product.overflow \/ sum.overflow]

----------------------------------------------------------------------------
(* FlexibleStruct<ParameterHeader, Descriptor>: one header and `length`    *)
(* elements in one zeroed allocation.  The elements are kept as the run    *)
(* the device wrote (`elements`); every element after it is still zero.    *)

ZeroDescriptor == zeroed(DescriptorLayout)

with_length(length) ==
    [ length |-> length, body |-> zeroed(ParameterHeaderLayout), elements |-> <<>> ]

\* The allocation's size in bytes.
total_size(data) ==
    overflowing_add(usize(size_of(ParameterHeaderLayout)),
                    overflowing_mul(data.length, usize(size_of(DescriptorLayout))).value).value

\* A slice of elements: its length and its leading explicitly written items.
elements_as_slice(data) == [len |-> data.length, items |-> data.elements]

\* slice[..n]; n > slice.len is Rust's out-of-range panic.
slice_to(slice, n) ==
    Only({ IF Less(s.len, m) THEN [len |-> m, items |-> <<>>, out_of_range |-> TRUE]
           ELSE [ len |-> m,
                  items |-> IF IsSmall(m) THEN SubSeq(s.items, 1, Min(ToNat(m), Len(s.items)))
                            ELSE s.items,
                  out_of_range |-> FALSE ] :
             s \in {slice}, m \in {n} })

\* Item i (from 1) of a slice or vector kept this way.
ItemAt(v, i, zero) == IF i <= Len(v.items) THEN v.items[i] ELSE zero

usize_min(a, b) == Only({IF Less(y, x) THEN y ELSE x : x \in {a}, y \in {b}})

----------------------------------------------------------------------------
(* ThisCommand: the Command implementation handed to the transport.        *)

direction(this) == "FromDevice"

command(this) == this.command_buffer

data(this) == with_length(as_usize(this.max_descriptor_length))

\* Mutant: the transfer size without the header.
data_size_no_header(this) ==
    overflowing_mul(this.max_descriptor_length, u32(size_of(DescriptorLayout)))

data_size(this) == header_plus_descriptors(this.max_descriptor_length)

\* ResultData::check_ioctl_error and ::check_common_error
check_ioctl_error(res) == IF res.ioctl_error THEN Returned("IoctlError") ELSE Returned("Ok")

check_common_error(res) == IF res.common_error THEN Returned("CommonError") ELSE Returned("Ok")

Panic(where) == [kind |-> "Panic", where |-> where]

\* Mutant: the protocol-level status checked before the transport-level status.
process_result_common_first(this, res, checks) ==
    IF check_common_error(res).kind # "Ok" THEN check_common_error(res)
    ELSE IF check_ioctl_error(res).kind # "Ok" THEN check_ioctl_error(res)
    ELSE
      LET reported == res.data.body.parameter_data_length
          minus    == overflowing_sub(as_usize(reported), usize(SizeOfU64))
          length   == div(minus.value, usize(size_of(DescriptorLayout)))
          slice    == slice_to(elements_as_slice(res.data), usize_min(length, res.data.length))
      IN  IF minus.overflow /\ checks THEN Panic("attempt to subtract with overflow")
          ELSE IF slice.out_of_range THEN Panic("range end index out of range for slice")
          ELSE [ kind |-> "Ok",
                 total_descripter_length |-> length,
                 number_of_open_streams  |-> res.data.body.number_of_open_streams,
                 stream_identifiers |->
                     [ len   |-> slice.len,
                       items |-> [i \in 1..Len(slice.items) |-> slice.items[i].stream_identifier] ] ]

\* ThisCommand::process_result.  checks: the build panics on integer overflow.
process_result(this, res, checks) ==
    IF check_ioctl_error(res).kind # "Ok" THEN check_ioctl_error(res)
    ELSE IF check_common_error(res).kind # "Ok" THEN check_common_error(res)
    ELSE
      LET reported == res.data.body.parameter_data_length
          minus    == overflowing_sub(as_usize(reported), usize(SizeOfU64))
          length   == div(minus.value, usize(size_of(DescriptorLayout)))
          slice    == slice_to(elements_as_slice(res.data), usize_min(length, res.data.length))
      IN  IF minus.overflow /\ checks THEN Panic("attempt to subtract with overflow")
          ELSE IF slice.out_of_range THEN Panic("range end index out of range for slice")
          ELSE [ kind |-> "Ok",
                 total_descripter_length |-> length,
                 number_of_open_streams  |-> res.data.body.number_of_open_streams,
                 stream_identifiers |->
                     [ len   |-> slice.len,
                       items |-> [i \in 1..Len(slice.items) |-> slice.items[i].stream_identifier] ] ]

----------------------------------------------------------------------------
(* The transport (Scsi::issue) and the device behind it.                   *)

StreamIds == {10, 20}

\* A device: the values it places in the header's parameter_data_length and
\* number_of_open_streams fields, and the identifiers it reports.
AnyDevice ==
    [ lengths |-> {u32(0), u32(7), u32(15), u32_MAX} \cup {u32(8 + 8 * k) : k \in 0..MaxReported},
      counts  |-> {0, 5},
      ids     |-> StreamIds ]

\* A device that reports one open stream, or leaves the buffer's header untouched.
SimpleDevice ==
    [ lengths |-> {u32(0), u32(16)},
      counts  |-> {1},
      ids     |-> {10} ]

ReplyHeaders(device) ==
    { [zeroed(ParameterHeaderLayout) EXCEPT !.parameter_data_length = l,
                                            !.number_of_open_streams = n] :
        l \in device.lengths, n \in device.counts }

\* The element runs the device can write into a buffer of `length` elements.
WrittenRuns(device, length) ==
    UNION { [1..k -> {[ZeroDescriptor EXCEPT !.stream_identifier = id] : id \in device.ids}] :
              k \in {j \in 0..MaxWritten : LessEq(usize(j), length)} }

\* The buffer as the device can leave it.
DeviceReplies(device, buffer) ==
    { [buffer EXCEPT !.body = h, !.elements = e] :
        h \in ReplyHeaders(device), e \in WrittenRuns(device, buffer.length) }

\* Scsi::issue(&this): asks the command for its direction, request bytes, reply
\* buffer and transfer size, runs the transaction, and lets the command
\* interpret the outcome.
Scsi_issue(this, device) ==
    LET size == data_size(this)
    IN  IF size.overflow /\ overflow_checks
        THEN /\ sent' = NoTransaction
             /\ outcome' = NoOutcome
             /\ result' = Panic("attempt to multiply with overflow")
        ELSE /\ sent' = [ kind      |-> "Transaction",
                          direction |-> direction(this),
                          command   |-> into_bytes(CommandBufferLayout, command(this)),
                          data_size |-> size.value,
                          data      |-> data(this) ]
             /\ \E reply \in DeviceReplies(device, data(this)),
                   ioctl_error \in BOOLEAN, common_error \in BOOLEAN :
                  outcome' = [ kind         |-> "ResultData",
                               ioctl_error  |-> ioctl_error,
                               common_error |-> common_error,
                               data         |-> reply ]
             /\ result' = process_result(this, outcome', overflow_checks)

----------------------------------------------------------------------------
(* The caller's calls on one command request.                              *)

StartingStreamIdentifiers == {0, 43981}

Controls == {0, 128}

DescriptorLengths ==
    {u32(k) : k \in 0..MaxCapacity}
        \cup { as_u32(MAX_DESCRIPTOR_LENGTH),
               overflowing_add(as_u32(MAX_DESCRIPTOR_LENGTH), u32(1)).value,
               u32_MAX }

\* A panic ends the program.
Running == result.kind # "Panic"

\* Scsi::get_stream_status
get_stream_status ==
    /\ overflow_checks \in BOOLEAN
    /\ self = new
    /\ call = [name |-> "get_stream_status", value |-> u32(0)]
    /\ issued = FALSE
    /\ sent = NoTransaction
    /\ outcome = NoOutcome
    /\ result = Returned("Self")

Init == get_stream_status

\* A setter returns &mut Self and hands nothing to the transport.
SetterReturns ==
    /\ UNCHANGED <<issued, overflow_checks>>
    /\ sent' = NoTransaction
    /\ outcome' = NoOutcome
    /\ result' = Returned("Self")

starting_stream_identifier(value) ==
    /\ Running
    /\ self' = [self EXCEPT !.command_buffer.starting_stream_identifier = value]
    /\ call' = [name |-> "starting_stream_identifier", value |-> u32(value)]
    /\ SetterReturns

control(value) ==
    /\ Running
    /\ self' = [self EXCEPT !.command_buffer.control = value]
    /\ call' = [name |-> "control", value |-> u32(value)]
    /\ SetterReturns

descriptor_length(value) ==
    /\ Running
    /\ self' = [self EXCEPT !.descriptor_length = value]
    /\ call' = [name |-> "descriptor_length", value |-> value]
    /\ SetterReturns

\* Mutant: >= in place of >.
out_of_bounds_inclusive(this) == LessEq(as_u32(MAX_DESCRIPTOR_LENGTH), this.descriptor_length)

\* Mutant: the limit taken as u32::MAX / size_of::<Descriptor>(), the header forgotten.
out_of_bounds_no_header(this) ==
    Less(div(u32_MAX, u32(size_of(DescriptorLayout))), this.descriptor_length)

\* The check of issue(): descriptor_length > MAX_DESCRIPTOR_LENGTH as u32.
out_of_bounds(this) == Less(as_u32(MAX_DESCRIPTOR_LENGTH), this.descriptor_length)

ArgumentOutOfBounds(maximum, provided) ==
    [kind |-> "ArgumentOutOfBounds", maximum |-> maximum, provided |-> provided]

\* Mutant: the request built from a fresh CommandBuffer instead of the configured one.
temp_fresh(this, allocation_length) ==
    [ command_buffer |-> [new.command_buffer EXCEPT !.allocation_length = allocation_length],
      max_descriptor_length |-> this.descriptor_length ]

\* The ThisCommand issue() builds: a copy of the command buffer with the
\* allocation length filled in, and the capacity of the reply buffer.
temp(this, allocation_length) ==
    [ command_buffer |-> [this.command_buffer EXCEPT !.allocation_length = allocation_length],
      max_descriptor_length |-> this.descriptor_length ]

\* GetStreamStatusCommand::issue, against a device.
issue(device) ==
    /\ Running
    /\ call' = [name |-> "issue", value |-> u32(0)]
    /\ issued' = TRUE
    /\ UNCHANGED <<self, overflow_checks>>
    /\ IF out_of_bounds(self)
       THEN /\ sent' = NoTransaction
            /\ outcome' = NoOutcome
            /\ result' = ArgumentOutOfBounds(MAX_DESCRIPTOR_LENGTH, self.descriptor_length)
       ELSE LET allocation_length == header_plus_descriptors(self.descriptor_length)
            IN  IF allocation_length.overflow /\ overflow_checks
                THEN /\ sent' = NoTransaction
                     /\ outcome' = NoOutcome
                     /\ result' = Panic("attempt to multiply with overflow")
                ELSE Scsi_issue(temp(self, allocation_length.value), device)

\* Every call of the caller-facing surface, against a simple device.
Next ==
    \/ \E value \in StartingStreamIdentifiers : starting_stream_identifier(value)
    \/ \E value \in Controls : control(value)
    \/ \E value \in DescriptorLengths : descriptor_length(value)
    \/ issue(SimpleDevice)

Spec == Init /\ [][Next]_vars

\* Choosing a capacity and issuing, against a device that may reply anything.
NextDevice ==
    \/ \E value \in DescriptorLengths : descriptor_length(value)
    \/ issue(AnyDevice)

SpecDevice == Init /\ [][NextDevice]_vars

----------------------------------------------------------------------------
(* Properties of the builder and of issue(), under Spec.                   *)

\* tests::layout_test
COMMAND_LENGTH == 16
PARAMETER_HEADER_LENGTH == 8
DESCRIPTOR_LENGTH == 8

\* 8 + 8 * c as an exact number (a usize holds it for every u32 c).
ExactAllocation(c) ==
    overflowing_add(usize(8), overflowing_mul(as_usize(c), usize(8)).value).value

Issued == call.name = "issue"
Transacted == sent.kind = "Transaction"

\* C1 as the spec states it: for every capacity c <= L = 536,870,911, issue passes
\* validation and puts allocation-length = 8 + 8c, at most 2^32 - 1, in the request.
C1_Original ==
    (Issued /\ LessEq(self.descriptor_length, u32(536870911))) =>
        /\ Transacted
        /\ as_usize(get(CommandBufferLayout, sent.command, "allocation_length"))
               = ExactAllocation(self.descriptor_length)
        /\ LessEq(ExactAllocation(self.descriptor_length), as_usize(u32_MAX))

\* C1, amended: the same with the limit the code computes, L = 536,870,910: for
\* every capacity c <= 536,870,910 issue passes validation and the request carries
\* allocation-length = 8 + 8c <= 2^32 - 1.
C1_AllocationLength ==
    (Issued /\ LessEq(self.descriptor_length, u32(536870910))) =>
        /\ Transacted
        /\ as_usize(get(CommandBufferLayout, sent.command, "allocation_length"))
               = ExactAllocation(self.descriptor_length)
        /\ LessEq(ExactAllocation(self.descriptor_length), as_usize(u32_MAX))

C1_Witness ==
    /\ Issued
    /\ self.descriptor_length = u32(536870910)
    /\ Transacted
    /\ get(CommandBufferLayout, sent.command, "allocation_length") = <<65535, 65528>>

\* C2: a capacity above (2^32 - 1 - 8) / 8 = 536,870,910 makes issue return
\* ArgumentOutOfBounds carrying that limit and the rejected value, and nothing is
\* handed to the transport: no request, no reply buffer, no outcome.
C2_OutOfBounds ==
    (Issued /\ Less(u32(536870910), self.descriptor_length)) =>
        /\ result = [ kind     |-> "ArgumentOutOfBounds",
                      maximum  |-> usize(536870910),
                      provided |-> self.descriptor_length ]
        /\ sent = NoTransaction
        /\ outcome = NoOutcome

C2_Witness ==
    /\ Issued
    /\ self.descriptor_length = u32(536870911)
    /\ result.kind = "ArgumentOutOfBounds"

\* C7: in every transaction handed to the transport, data_size(), the byte length
\* of the reply buffer made by data() and the request's allocation-length agree.
C7_ByteCountsAgree ==
    Transacted =>
        /\ as_usize(sent.data_size) = total_size(sent.data)
        /\ sent.data_size = get(CommandBufferLayout, sent.command, "allocation_length")
        /\ total_size(sent.data) = ExactAllocation(self.descriptor_length)

C7_Witness ==
    /\ Transacted
    /\ self.descriptor_length = u32(536870910)
    /\ sent.data_size = <<65535, 65528>>

\* C9: each layout is a whole number of bytes, the sum of its field widths over 8:
\* 16 for the request descriptor, 8 for the reply header, 8 for the reply element;
\* the request bytes handed to the transport are 16.
C9_LayoutSizes ==
    /\ TotalBits(CommandBufferLayout) = 8 + 3 + 5 + 16 + 16 + 32 + 32 + 8 + 8
    /\ TotalBits(ParameterHeaderLayout) = 32 + 16 + 16
    /\ TotalBits(DescriptorLayout) = 16 + 16 + 32
    /\ size_of(CommandBufferLayout) = COMMAND_LENGTH
    /\ size_of(ParameterHeaderLayout) = PARAMETER_HEADER_LENGTH
    /\ size_of(DescriptorLayout) = DESCRIPTOR_LENGTH
    /\ Len(into_bytes(CommandBufferLayout, self.command_buffer)) = COMMAND_LENGTH
    /\ (Transacted => Len(sent.command) = COMMAND_LENGTH)

C9_Witness ==
    /\ Transacted
    /\ Len(sent.command) = 16
    /\ self.command_buffer.control = 128

\* The 16 request bytes for a starting index, a control byte and a capacity whose
\* 8 + 8 * capacity fits 32 bits.
RequestBytes(starting, ctl, capacity) ==
    LET a == as_u32(ExactAllocation(capacity))
    IN  << 158, 22, 0, 0, starting \div 256, starting % 256, 0, 0, 0, 0,
           a[1] \div 256, a[1] % 256, a[2] \div 256, a[2] % 256, 0, ctl >>

\* C10: the request handed to the transport by an issue has operation code 0x9E,
\* sub-operation 0x16, every reserved bit zero, and the stored starting index,
\* control byte and capacity (zero at construction); issue changes none of the
\* stored configuration and each setter changes only its own field, to its argument.
C10_Frame ==
    [][ /\ (call'.name = "issue") =>
              /\ self' = self
              /\ (sent'.kind = "Transaction" =>
                    sent'.command = RequestBytes(self.command_buffer.starting_stream_identifier,
                                                 self.command_buffer.control,
                                                 self.descriptor_length))
        /\ (call'.name = "starting_stream_identifier") =>
              self' = [self EXCEPT !.command_buffer.starting_stream_identifier = ToNat(call'.value)]
        /\ (call'.name = "control") =>
              self' = [self EXCEPT !.command_buffer.control = ToNat(call'.value)]
        /\ (call'.name = "descriptor_length") =>
              self' = [self EXCEPT !.descriptor_length = call'.value]
        /\ self'.command_buffer.operation_code = 158
        /\ self'.command_buffer.service_action = 22
        /\ self'.command_buffer.allocation_length = u32(0)
      ]_vars

C10_Witness ==
    /\ Issued
    /\ Transacted
    /\ sent.command = <<158, 22, 0, 0, 171, 205, 0, 0, 0, 0, 0, 0, 0, 24, 0, 128>>

\* C6: Issued is terminal: once issue has been called on an instance, that instance
\* is not issued a second time and none of its setters is applied to it any more.
\* issue takes &mut self and leaves the instance with the caller, so a second issue
\* and every setter remain callable and act on it.
C6_Original == [][issued => UNCHANGED vars]_vars

----------------------------------------------------------------------------
(* Properties of the decoding in process_result, under SpecDevice.         *)

\* The transaction reported neither a transport nor a protocol error.
Successful ==
    /\ outcome.kind = "ResultData"
    /\ ~outcome.ioctl_error
    /\ ~outcome.common_error

\* The header's total-parameter-length and the buffer's capacity, of an outcome.
Reported == outcome.data.body.parameter_data_length
Capacity == outcome.data.length

Widen(a, n) == [i \in 1..(n - Len(a)) |-> 0] \o a

\* 8 + 8 * n + r as an exact number, for a usize n and r below 8.
EightPlusEightTimes(n, r) ==
    AddLimbs(MulLimbs(n, 8, Len(n), 0), Widen(<<8 + r>>, Len(n) + 1), Len(n) + 1, 0)

\* n = (length - 8) / 8 in exact integers: length = 8 + 8 * n + r with 0 <= r < 8.
IsReportedCount(n, length) ==
    \E r \in 0..7 : EightPlusEightTimes(n, r) = Widen(length, Len(n) + 2)

\* The reported count exceeds n: length >= 8 + 8 * (n + 1).
ReportsMoreThan(n, length) ==
    LessEq(EightPlusEightTimes(n, 8), Widen(length, Len(n) + 2))

\* C3: a successful outcome is decoded into exactly min(c, reported_count)
\* identifiers, reported_count = (total-parameter-length - 8) / 8: reported_count
\* of them when that is at most the capacity c, and c of them when it is more.
C3_Clamp ==
    Successful =>
        /\ result.kind = "Ok"
        /\ LessEq(u32(8), Reported) =>
              \/ /\ IsReportedCount(result.stream_identifiers.len, Reported)
                 /\ LessEq(result.stream_identifiers.len, Capacity)
              \/ /\ result.stream_identifiers.len = Capacity
                 /\ ReportsMoreThan(Capacity, Reported)

\* C3 for the headers that report a count at all (total-parameter-length >= 8).
C3_ClampFromLength8 ==
    (Successful /\ LessEq(u32(8), Reported)) =>
        /\ result.kind = "Ok"
        /\ \/ /\ IsReportedCount(result.stream_identifiers.len, Reported)
              /\ LessEq(result.stream_identifiers.len, Capacity)
           \/ /\ result.stream_identifiers.len = Capacity
              /\ ReportsMoreThan(Capacity, Reported)

\* C4: whatever 32-bit value the header's total-parameter-length holds, values
\* below 8 included, decoding a transaction that reported no error does not abort
\* and reads no element at or beyond the capacity: it yields a success result
\* with at most c identifiers.
C4_DecodeNeverFails ==
    Successful =>
        /\ result.kind = "Ok"
        /\ LessEq(result.stream_identifiers.len, Capacity)
        /\ Len(result.stream_identifiers.items) <= Len(outcome.data.elements)

\* C4 for the release profile, where the subtraction wraps.
C4_ReleaseProfile ==
    (Successful /\ ~overflow_checks) =>
        /\ result.kind = "Ok"
        /\ LessEq(result.stream_identifiers.len, Capacity)
        /\ Len(result.stream_identifiers.items) <= Len(outcome.data.elements)

\* C5: the transport-level status is checked before the protocol-level status:
\* with a transport error the result is the transport error, whether or not there
\* is a protocol error too; the protocol error is the result only without a
\* transport error; and an error result carries nothing decoded from the buffer.
C5_TransportErrorFirst ==
    (outcome.kind = "ResultData") =>
        /\ outcome.ioctl_error => result = [kind |-> "IoctlError"]
        /\ (~outcome.ioctl_error /\ outcome.common_error) => result = [kind |-> "CommonError"]
        /\ result.kind \in {"IoctlError", "CommonError"} =>
              (outcome.ioctl_error \/ outcome.common_error)

C5_Witness ==
    /\ outcome.kind = "ResultData"
    /\ outcome.ioctl_error
    /\ outcome.common_error
    /\ Reported = u32(24)
    /\ Len(outcome.data.elements) = 2
    /\ result.kind = "IoctlError"

\* C8: on a successful outcome the result is: number_of_open_streams, the header's
\* open-count; total_descripter_length, the reported count (total-parameter-length
\* - 8) / 8, not clamped; stream_identifiers, the identifiers of the first
\* min(capacity, reported count) reply elements in their order.
C8_Result ==
    Successful =>
        /\ result.kind = "Ok"
        /\ result.number_of_open_streams = outcome.data.body.number_of_open_streams
        /\ IsReportedCount(result.total_descripter_length, Reported)
        /\ result.stream_identifiers.len = usize_min(Capacity, result.total_descripter_length)
        /\ Len(result.stream_identifiers.items) <= Len(outcome.data.elements)
        /\ \A i \in 1..Len(outcome.data.elements) :
              LessEq(usize(i), result.stream_identifiers.len) =>
                  ItemAt(result.stream_identifiers, i, 0) = outcome.data.elements[i].stream_identifier

\* C8 for the headers that report a count at all (total-parameter-length >= 8).
C8_ResultFromLength8 ==
    (Successful /\ LessEq(u32(8), Reported)) =>
        /\ result.kind = "Ok"
        /\ result.number_of_open_streams = outcome.data.body.number_of_open_streams
        /\ IsReportedCount(result.total_descripter_length, Reported)
        /\ result.stream_identifiers.len = usize_min(Capacity, result.total_descripter_length)
        /\ Len(result.stream_identifiers.items) <= Len(outcome.data.elements)
        /\ \A i \in 1..Len(outcome.data.elements) :
              LessEq(usize(i), result.stream_identifiers.len) =>
                  ItemAt(result.stream_identifiers, i, 0) = outcome.data.elements[i].stream_identifier

\* The spec's end-to-end example: capacity 3, header {length 24, open-count 5},
\* elements {10}, {20} and an unused third slot give {2, 5, [10, 20]}.
C8_Example ==
    ( /\ Successful
      /\ Capacity = usize(3)
      /\ Reported = u32(24)
      /\ outcome.data.body.number_of_open_streams = 5
      /\ Len(outcome.data.elements) = 2
      /\ outcome.data.elements[1].stream_identifier = 10
      /\ outcome.data.elements[2].stream_identifier = 20 ) =>
        result = [ kind |-> "Ok",
                   total_descripter_length |-> usize(2),
                   number_of_open_streams  |-> 5,
                   stream_identifiers      |-> [len |-> usize(2), items |-> <<10, 20>>] ]

C8_ExampleReached ==
    /\ Successful
    /\ Capacity = usize(3)
    /\ result.kind = "Ok"
    /\ result.total_descripter_length = usize(2)
    /\ result.number_of_open_streams = 5
    /\ result.stream_identifiers = [len |-> usize(2), items |-> <<10, 20>>]

====
